---- MODULE Spec2Model ----
(***************************************************************************)
(* rn-wallet: a verification model of                                      *)
(*   - the rate limiter middleware and the server's middleware chain       *)
(*     (backend/src/middleware/rateLimiter.js, backend/src/server.js),     *)
(*   - the transactions handlers createItem / deleteItem of the CRUD       *)
(*     reference (unnamed/part_001) over the transaction store,            *)
(*   - the mobile hook useTransactions (mobile/hooks/useTransactions.js).  *)
(* SpecGate is the request pipeline up to the route handlers; SpecStore is *)
(* the handlers that run behind it, for requests the gate has passed on;   *)
(* SpecHook is the hook on a device, with its requests answered by them.   *)
(* Strings the code takes apart (the forwarded-for header, the id route    *)
(* parameter) are sequences of one-character strings.                      *)
(***************************************************************************)
EXTENDS Integers, Sequences, FiniteSets, TLC

VARIABLES
  slots,       \* the requests in flight, one record per connection slot
  used,        \* the external limiter: calls counted per key in this window
  calls,       \* limiter calls answered in this window (all keys)
  production,  \* process.env.NODE_ENV === "production"
  rows,        \* the transaction store: the persisted records
  nextId,      \* the store's id sequence
  created,     \* the ids of the records returned by a 201, in that order
  live,        \* the records returned by a 201 and by no 200 of a delete since
  ledger,      \* per user, what the 201 and 200 responses so far add up to
  last,        \* the latest handler call: request, response, store before it
  hook         \* useTransactions: its state, and its calls in flight

vars == <<slots, used, calls, production, rows, nextId, created, live, ledger, last, hook>>

gateVars == <<slots, used, calls, production>>
storeVars == <<rows, nextId, created, live, ledger, last>>
hookVars == <<hook>>

----------------------------------------------------------------------------
(* Bounds *)

MaxHdrLen == 3    \* characters of a forwarded-for header (SpecKey)
GateHdrLen == 1   \* characters of a forwarded-for header (SpecGate)
Threshold == 2    \* N: requests the limiter allows per key and window
MaxCalls == 4     \* limiter calls answered per window
MaxCreates == 3   \* records the store inserts (SpecStore)
StoreIdLen == 1   \* characters of the id route parameter (SpecStore)
FewCreates == 2   \* records the store inserts (SpecInput)
MaxIdLen == 2     \* characters of the id route parameter (SpecInput)

----------------------------------------------------------------------------
(* Strings *)

\* req.headers["x-forwarded-for"]: undefined, or the header's text
NoHeader == [present |-> FALSE, text |-> <<>>]

Header(t) == [present |-> TRUE, text |-> t]

HeaderChars == {"a", ",", " "}

RECURSIVE SeqsUpTo(_, _)
SeqsUpTo(S, n) ==
  IF n = 0 THEN {<<>>}
  ELSE LET shorter == SeqsUpTo(S, n - 1)
       IN shorter \cup {Append(s, c) : s \in {t \in shorter : Len(t) = n - 1}, c \in S}

Headers == {Header(t) : t \in SeqsUpTo(HeaderChars, MaxHdrLen)}

GateHeaders == {Header(t) : t \in SeqsUpTo(HeaderChars, GateHdrLen)}

Peers == {<<"a">>, <<"p">>}

IsSpace(c) == c = " "

\* String.prototype.split(",")[0]: the text before the first comma
RECURSIVE FirstToken(_)
FirstToken(s) ==
  IF s = <<>> THEN <<>>
  ELSE IF Head(s) = "," THEN <<>>
  ELSE <<Head(s)>> \o FirstToken(Tail(s))

RECURSIVE TrimStart(_)
TrimStart(s) ==
  IF s # <<>> /\ IsSpace(Head(s)) THEN TrimStart(Tail(s)) ELSE s

RECURSIVE TrimEnd(_)
TrimEnd(s) ==
  IF s # <<>> /\ IsSpace(s[Len(s)]) THEN TrimEnd(SubSeq(s, 1, Len(s) - 1)) ELSE s

\* String.prototype.trim
Trim(s) == TrimEnd(TrimStart(s))

----------------------------------------------------------------------------
(* The rate limiter middleware: backend/src/middleware/rateLimiter.js *)

\* the requests in flight at once
Reqs == {1, 2}

\* in a slot: sent counts the responses written for the request by anyone,
\* rejects the 429 responses written by rateLimiter itself (lines 13-15),
\* nextCalls its next() (line 18) and errCalls its next(error) (line 21)

\* GET /api/health, and anything under /api/transactions
Paths == {"health", "transactions"}

IdleSlot ==
  [pc |-> "idle", path |-> "none", from |-> "none", fwd |-> NoHeader,
   peer |-> <<>>, key |-> <<>>, over |-> FALSE, limited |-> "pending",
   json |-> "pending", sent |-> 0, nextCalls |-> 0, errCalls |-> 0, handler |-> "none",
   status |-> 0, body |-> "none", rejects |-> 0]

\* the first token is not trimmed
DeriveKey_NoTrim(fwd, peer) ==
  IF fwd.present THEN FirstToken(fwd.text) ELSE peer

\* lines 5-9: the key passed to limit(). typeof forwarded === "string" holds
\* exactly when the header is present; req.ip is the peer address.
DeriveKey(fwd, peer) ==
  IF fwd.present THEN Trim(FirstToken(fwd.text)) ELSE peer

\* lines 3-10, up to the await: the request waits for ratelimit.limit(ip)
RateLimiterCall(path, from, fwd, peer) ==
  [IdleSlot EXCEPT !.pc = "limit", !.path = path, !.from = from, !.fwd = fwd,
                   !.peer = peer, !.key = DeriveKey(fwd, peer)]

TooManyRequests == "Too many requests, please try again later."

\* the 429 is sent and the return is missing: next() runs as well
OnLimitResolved_NoReturn(s, success) ==
  IF ~success
  THEN [s EXCEPT !.pc = "json", !.sent = @ + 1, !.nextCalls = @ + 1,
                 !.status = 429, !.body = TooManyRequests, !.rejects = @ + 1]
  ELSE [s EXCEPT !.pc = "json", !.nextCalls = @ + 1]

\* the test of success is inverted
OnLimitResolved_Inverted(s, success) ==
  IF success
  THEN [s EXCEPT !.pc = "done", !.sent = @ + 1, !.status = 429, !.body = TooManyRequests,
                 !.rejects = @ + 1]
  ELSE [s EXCEPT !.pc = "json", !.nextCalls = @ + 1]

\* lines 10-18: limit() resolved with {success}
OnLimitResolved(s, success) ==
  IF ~success
  THEN [s EXCEPT !.pc = "done", !.sent = @ + 1, !.status = 429, !.body = TooManyRequests,
                 !.rejects = @ + 1]
  ELSE [s EXCEPT !.pc = "json", !.nextCalls = @ + 1]

\* the catch block fails open: next() without the error
OnLimitFailed_FailOpen(s) ==
  [s EXCEPT !.pc = "json", !.nextCalls = @ + 1]

\* the catch block logs the error and calls nothing: the request is left
\* without an answer
OnLimitFailed_Swallowed(s) ==
  [s EXCEPT !.pc = "done"]

\* lines 19-22: limit() rejected; next(error) reaches the framework's error
\* handler, which answers 500
OnLimitFailed(s) ==
  [s EXCEPT !.pc = "done", !.errCalls = @ + 1, !.sent = @ + 1, !.status = 500,
            !.body = "error"]

\* the external limiter (config/upstash.js): success while the key has made
\* fewer than Threshold calls in the window
LimiterSuccess(k) == used[k] < Threshold

Keys == {DeriveKey(f, p) : f \in Headers \cup {NoHeader}, p \in Peers}

Arrive(r, paths, hdrs) ==
  /\ slots[r].pc = "idle"
  /\ \A q \in Reqs : q < r => slots[q].pc # "idle"
  /\ \E path \in paths, fwd \in hdrs \cup {NoHeader}, peer \in Peers :
       slots' = [slots EXCEPT ![r] = RateLimiterCall(path, "client", fwd, peer)]
  /\ UNCHANGED <<used, calls, production>>
  /\ UNCHANGED <<storeVars, hookVars>>

\* a request arrives (SpecGate)
Request(r) == Arrive(r, Paths, GateHeaders)

\* a request arrives, its header drawn from all of Headers (SpecKey)
LongRequest(r) == Arrive(r, Paths, Headers)

\* the keep-alive job's GET /api/health, started in production mode only
KeepAliveTick(r) ==
  /\ production
  /\ slots[r].pc = "idle"
  /\ \A q \in Reqs : q < r => slots[q].pc # "idle"
  /\ \E peer \in Peers :
       slots' = [slots EXCEPT ![r] = RateLimiterCall("health", "cron", NoHeader, peer)]
  /\ UNCHANGED <<used, calls, production>>
  /\ UNCHANGED <<storeVars, hookVars>>

\* the limiter answers the call of request r
LimitAnswer(r) ==
  /\ slots[r].pc = "limit"
  /\ calls < MaxCalls
  /\ LET k == slots[r].key
         s == [slots[r] EXCEPT !.fwd = NoHeader, !.peer = <<>>,
                               !.over = (used[k] >= Threshold),
                               !.limited = IF LimiterSuccess(k) THEN "success" ELSE "over"]
     IN /\ slots' = [slots EXCEPT ![r] = OnLimitResolved(s, LimiterSuccess(k))]
        /\ used' = [used EXCEPT ![k] = @ + 1]
  /\ calls' = calls + 1
  /\ UNCHANGED production
  /\ UNCHANGED <<storeVars, hookVars>>

\* the call to the limiter fails (network error), counted by the service or not
LimitError(r) ==
  /\ slots[r].pc = "limit"
  /\ LET k == slots[r].key
         s == [slots[r] EXCEPT !.fwd = NoHeader, !.peer = <<>>, !.limited = "failed"]
     IN /\ slots' = [slots EXCEPT ![r] = OnLimitFailed(s)]
        /\ \/ UNCHANGED <<used, calls>>
           \/ /\ calls < MaxCalls
              /\ used' = [used EXCEPT ![k] = @ + 1]
              /\ calls' = calls + 1
  /\ UNCHANGED production
  /\ UNCHANGED <<storeVars, hookVars>>

\* the limiter's window ends
WindowExpire ==
  /\ calls > 0
  /\ used' = [k \in Keys |-> 0]
  /\ calls' = 0
  /\ UNCHANGED <<slots, production>>
  /\ UNCHANGED <<storeVars, hookVars>>

----------------------------------------------------------------------------
(* The middleware chain behind the limiter: backend/src/server.js *)

\* what the transactions router may answer (SpecStore has the handlers)
RouterStatuses == {201, 400}

\* line 16: express.json() passes the request on, or fails on a body it
\* cannot parse (the error handler answers 400)
JsonParsed(s, ok) ==
  IF ok THEN [s EXCEPT !.pc = "route"]
  ELSE [s EXCEPT !.pc = "done", !.sent = @ + 1, !.status = 400, !.body = "error"]

ExpressJson(r) ==
  /\ slots[r].pc = "json"
  /\ \E ok \in BOOLEAN :
       LET s == [slots[r] EXCEPT !.json = IF ok THEN "ok" ELSE "bad"]
       IN slots' = [slots EXCEPT ![r] = JsonParsed(s, ok)]
  /\ UNCHANGED <<used, calls, production>>
  /\ UNCHANGED <<storeVars, hookVars>>

\* the health route answers without a body
HealthHandler_NoContent(s) ==
  [s EXCEPT !.pc = "done", !.handler = "health", !.sent = @ + 1,
            !.status = 204, !.body = "none"]

\* lines 20-22: app.get("/api/health")
HealthHandler(s) ==
  [s EXCEPT !.pc = "done", !.handler = "health", !.sent = @ + 1,
            !.status = 200, !.body = "ok"]

HealthRoute(r) ==
  /\ slots[r].pc = "route"
  /\ slots[r].path = "health"
  /\ slots' = [slots EXCEPT ![r] = HealthHandler(slots[r])]
  /\ UNCHANGED <<used, calls, production>>
  /\ UNCHANGED <<storeVars, hookVars>>

\* line 24: app.use("/api/transactions", transctionsRoute)
TransactionsRoute(r) ==
  /\ slots[r].pc = "route"
  /\ slots[r].path = "transactions"
  /\ \E st \in RouterStatuses :
       slots' = [slots EXCEPT ![r] = [@ EXCEPT !.pc = "done", !.handler = "transactions",
                                               !.sent = @ + 1, !.status = st,
                                               !.body = "router"]]
  /\ UNCHANGED <<used, calls, production>>
  /\ UNCHANGED <<storeVars, hookVars>>

\* the response is out and the connection slot is free again
Release(r) ==
  /\ slots[r].pc = "done"
  /\ slots' = [slots EXCEPT ![r] = IdleSlot]
  /\ UNCHANGED <<used, calls, production>>
  /\ UNCHANGED <<storeVars, hookVars>>

----------------------------------------------------------------------------
(* Values of a JSON request body *)

Undefined == [t |-> "undefined", s |-> "", n |-> 0]
Null == [t |-> "null", s |-> "", n |-> 0]
Str(x) == [t |-> "string", s |-> x, n |-> 0]
Num(k) == [t |-> "number", s |-> "", n |-> k]

\* !v
Falsy(v) ==
  \/ v.t \in {"undefined", "null"}
  \/ v.t = "string" /\ v.s = ""
  \/ v.t = "number" /\ v.n = 0

Users == {"u1", "u2"}

UserIdInputs == {Undefined, Num(0), Str("u1"), Str("u2")}
TitleInputs == {Undefined, Str("t")}
AmountInputs == {Undefined, Null, Str("5"), Num(-2), Num(0), Num(3)}
CategoryInputs == {Undefined, Str("c")}

Bodies ==
  [userId : UserIdInputs, title : TitleInputs, amount : AmountInputs,
   category : CategoryInputs]

\* the bodies createItem accepts, and the same without a category
StoreBodies ==
  {b \in Bodies : b.userId.t = "string" /\ b.title = Str("t") /\ b.amount.t = "number"}

NoBody == [userId |-> Undefined, title |-> Undefined, amount |-> Undefined,
           category |-> Undefined]

----------------------------------------------------------------------------
(* The transaction store *)

NoItem == [id |-> 0, userId |-> Undefined, title |-> Undefined, amount |-> Undefined,
           category |-> Undefined, createdAt |-> 0]

\* db.create: the store assigns the id and the creation time
DbCreate(data) ==
  [id |-> nextId, userId |-> data.userId, title |-> data.title, amount |-> data.amount,
   category |-> data.category, createdAt |-> nextId]

IdChars == {"1", "2", "x"}

Ids == SeqsUpTo(IdChars, MaxIdLen) \ {<<>>}

StoreIds == SeqsUpTo(IdChars, StoreIdLen) \ {<<>>}

IsDigit(c) == c \in {"1", "2"}

DigitValue(c) == CASE c = "1" -> 1 [] c = "2" -> 2 [] OTHER -> 0

\* the decimal value of a string of digits
RECURSIVE Decimal(_)
Decimal(str) ==
  IF str = <<>> THEN 0
  ELSE 10 * Decimal(SubSeq(str, 1, Len(str) - 1)) + DigitValue(str[Len(str)])

\* the longest prefix of digits
RECURSIVE DigitPrefix(_)
DigitPrefix(str) ==
  IF str # <<>> /\ IsDigit(Head(str)) THEN <<Head(str)>> \o DigitPrefix(Tail(str)) ELSE <<>>

\* parseInt: the value of the leading digits, NaN when there are none
ParseInt(str) ==
  LET d == DigitPrefix(str)
  IN [nan |-> d = <<>>, n |-> Decimal(d)]

AllDigits(str) == str # <<>> /\ \A i \in 1..Len(str) : IsDigit(str[i])

\* db.deleteById: the row the store deletes for this id parameter, NoItem
\* when it deletes none
DbDeleteById(id) ==
  IF AllDigits(id) /\ \E x \in rows : x.id = Decimal(id)
  THEN CHOOSE x \in rows : x.id = Decimal(id)
  ELSE NoItem

RECURSIVE SumAmounts(_)
SumAmounts(S) ==
  IF S = {} THEN 0
  ELSE LET x == CHOOSE y \in S : TRUE
       IN x.amount.n + SumAmounts(S \ {x})

RECURSIVE NewestFirst(_)
NewestFirst(S) ==
  IF S = {} THEN <<>>
  ELSE LET x == CHOOSE y \in S : \A z \in S : z.createdAt <= y.createdAt
       IN <<x>> \o NewestFirst(S \ {x})

\* the records of user u among S, by creation time descending
ListOf(S, u) == NewestFirst({x \in S : x.userId = Str(u)})

\* ListByUser
ListByUser(u) == ListOf(rows, u)

\* the aggregates over the records of user u among S
SummaryOf(S, u) ==
  LET mine == {x \in S : x.userId = Str(u)}
  IN [balance |-> SumAmounts(mine),
      income |-> SumAmounts({x \in mine : x.amount.n > 0}),
      expense |-> SumAmounts({x \in mine : x.amount.n < 0})]

\* Summary
Summary(u) == SummaryOf(rows, u)

NoSummary == [balance |-> 0, income |-> 0, expense |-> 0]

----------------------------------------------------------------------------
(* The handlers: unnamed/part_001 *)

Response(status, message, item, newRows) ==
  [status |-> status, message |-> message, item |-> item, rows |-> newRows]

\* the amount is tested like the other fields: !amount
createItem_FalsyAmount(body, dbOk) ==
  IF Falsy(body.userId) \/ Falsy(body.title) \/ Falsy(body.amount) \/ Falsy(body.category)
  THEN Response(400, "All fields are required: userId, title, amount, category",
                NoItem, rows)
  ELSE IF body.amount.t # "number"
  THEN Response(400, "Amount must be a number", NoItem, rows)
  ELSE IF ~dbOk
  THEN Response(500, "Internal server error", NoItem, rows)
  ELSE Response(201, "", DbCreate(body), rows \cup {DbCreate(body)})

\* the record is answered and never inserted
createItem_NoInsert(body, dbOk) ==
  IF Falsy(body.userId) \/ Falsy(body.title) \/ body.amount.t = "undefined"
       \/ Falsy(body.category)
  THEN Response(400, "All fields are required: userId, title, amount, category",
                NoItem, rows)
  ELSE IF body.amount.t # "number"
  THEN Response(400, "Amount must be a number", NoItem, rows)
  ELSE IF ~dbOk
  THEN Response(500, "Internal server error", NoItem, rows)
  ELSE Response(201, "", DbCreate(body), rows)

\* lines 74-102
createItem(body, dbOk) ==
  IF Falsy(body.userId) \/ Falsy(body.title) \/ body.amount.t = "undefined"
       \/ Falsy(body.category)
  THEN Response(400, "All fields are required: userId, title, amount, category",
                NoItem, rows)
  ELSE IF body.amount.t # "number"
  THEN Response(400, "Amount must be a number", NoItem, rows)
  ELSE IF ~dbOk
  THEN Response(500, "Internal server error", NoItem, rows)
  ELSE Response(201, "", DbCreate(body), rows \cup {DbCreate(body)})

\* the delete takes every record of the record's user with it
deleteItem_WholeUser(id, dbOk, strict) ==
  IF id = <<>>
  THEN Response(400, "Item ID is required", NoItem, rows)
  ELSE IF ParseInt(id).nan
  THEN Response(400, "Invalid item ID format", NoItem, rows)
  ELSE IF ~dbOk \/ (strict /\ ~AllDigits(id))
  THEN Response(500, "Internal server error", NoItem, rows)
  ELSE IF DbDeleteById(id) = NoItem
  THEN Response(404, "Item not found", NoItem, rows)
  ELSE Response(200, "Item deleted successfully", DbDeleteById(id),
                {x \in rows : x.userId # DbDeleteById(id).userId})

\* success is answered and the record stays
deleteItem_NoDelete(id, dbOk, strict) ==
  IF id = <<>>
  THEN Response(400, "Item ID is required", NoItem, rows)
  ELSE IF ParseInt(id).nan
  THEN Response(400, "Invalid item ID format", NoItem, rows)
  ELSE IF ~dbOk \/ (strict /\ ~AllDigits(id))
  THEN Response(500, "Internal server error", NoItem, rows)
  ELSE IF DbDeleteById(id) = NoItem
  THEN Response(404, "Item not found", NoItem, rows)
  ELSE Response(200, "Item deleted successfully", DbDeleteById(id), rows)

\* lines 192-219; strict: whether the store raises an error for an id
\* parameter that is not a number, or finds no row for it
deleteItem(id, dbOk, strict) ==
  IF id = <<>>
  THEN Response(400, "Item ID is required", NoItem, rows)
  ELSE IF ParseInt(id).nan
  THEN Response(400, "Invalid item ID format", NoItem, rows)
  ELSE IF ~dbOk \/ (strict /\ ~AllDigits(id))
  THEN Response(500, "Internal server error", NoItem, rows)
  ELSE IF DbDeleteById(id) = NoItem
  THEN Response(404, "Item not found", NoItem, rows)
  ELSE Response(200, "Item deleted successfully", DbDeleteById(id),
                rows \ {DbDeleteById(id)})

NoCall ==
  [op |-> "none", body |-> NoBody, id |-> <<>>, user |-> "", dbFailed |-> FALSE,
   status |-> 0, item |-> NoItem, list |-> <<>>, summary |-> NoSummary,
   before |-> {}]

\* the ledger after a response that created (sign = 1) or deleted (sign = -1) item
Booked(item, sign) ==
  [u \in Users |->
     IF item.userId = Str(u)
     THEN [balance |-> ledger[u].balance + sign * item.amount.n,
           income |-> ledger[u].income + (IF item.amount.n > 0 THEN sign * item.amount.n ELSE 0),
           expense |-> ledger[u].expense + (IF item.amount.n < 0 THEN sign * item.amount.n ELSE 0)]
     ELSE ledger[u]]

\* POST /api/transactions
Create(bodies, max) ==
  /\ nextId <= max
  /\ \E body \in bodies :
       \* the store's failure is an input where the handler reaches the store
       \E res \in {createItem(body, dbOk) : dbOk \in BOOLEAN} :
          /\ rows' = res.rows
          /\ nextId' = IF res.status = 201 THEN nextId + 1 ELSE nextId
          /\ created' = IF res.status = 201 THEN Append(created, res.item.id) ELSE created
          /\ live' = IF res.status = 201 THEN live \cup {res.item} ELSE live
          /\ ledger' = IF res.status = 201 THEN Booked(res.item, 1) ELSE ledger
          /\ last' = [NoCall EXCEPT !.op = "create", !.body = body,
                                    !.dbFailed = (res.status = 500),
                                    !.status = res.status, !.item = res.item,
                                    !.before = rows]
  /\ UNCHANGED <<gateVars, hookVars>>

\* DELETE /api/transactions/:id
Delete(ids) ==
  /\ \E id \in ids :
       \E res \in {deleteItem(id, dbOk, strict) : dbOk \in BOOLEAN, strict \in BOOLEAN} :
          /\ rows' = res.rows
          /\ live' = IF res.status = 200 THEN live \ {res.item} ELSE live
          /\ ledger' = IF res.status = 200 THEN Booked(res.item, -1) ELSE ledger
          /\ last' = [NoCall EXCEPT !.op = "delete", !.id = id,
                                    !.dbFailed = (res.status = 500),
                                    !.status = res.status, !.item = res.item,
                                    !.before = rows]
  /\ UNCHANGED <<nextId, created>>
  /\ UNCHANGED <<gateVars, hookVars>>

StoreCreate == Create(StoreBodies, MaxCreates)

StoreDelete == Delete(StoreIds)

AnyCreate == Create(Bodies, FewCreates)

AnyDelete == Delete(Ids)

\* GET /api/transactions/:userId
List ==
  /\ \E u \in Users :
       last' = [NoCall EXCEPT !.op = "list", !.user = u, !.status = 200,
                              !.list = ListByUser(u), !.before = rows]
  /\ UNCHANGED <<rows, nextId, created, live, ledger>>
  /\ UNCHANGED <<gateVars, hookVars>>

\* GET /api/transactions/summary/:userId
Summarize ==
  /\ \E u \in Users :
       last' = [NoCall EXCEPT !.op = "summary", !.user = u, !.status = 200,
                              !.summary = Summary(u), !.before = rows]
  /\ UNCHANGED <<rows, nextId, created, live, ledger>>
  /\ UNCHANGED <<gateVars, hookVars>>

----------------------------------------------------------------------------
(* The mobile hook: mobile/hooks/useTransactions.js *)

\* a parsed response body, as the hook's state holds it: a list of records, a
\* summary, or the {message} of an error response
JList(items) == [t |-> "list", items |-> items, sum |-> NoSummary, message |-> ""]
JSummary(s) == [t |-> "summary", items |-> <<>>, sum |-> s, message |-> ""]
JMessage(m) == [t |-> "message", items |-> <<>>, sum |-> NoSummary, message |-> m]

\* a response of the server on its way to the hook
NoReply == [status |-> 0, body |-> JMessage("")]
Reply(status, body) == [status |-> status, body |-> body]

\* how a fetch ends for the hook: the response arrives and its body parses
\* ("json"), the response arrives and json() rejects ("garbage"), or fetch
\* itself rejects ("failed")
Arrivals == {"json", "garbage", "failed"}

\* response.ok
Ok(reply) == reply.status >= 200 /\ reply.status <= 299

\* one call of fetchTransaction or fetchSummary: where it stands, the response
\* on its way, and the state of the promise the call returned
NoFetch == [pc |-> "none", reply |-> NoReply, promise |-> "none"]
SentFetch == [pc |-> "sent", reply |-> NoReply, promise |-> "pending"]
DoneFetch(promise) == [pc |-> "done", reply |-> NoReply, promise |-> promise]

\* the user the hook is rendered for: the signed-in user, or none yet
HookUser == Str("u1")

\* the records on the server when the hook is mounted
HookRows ==
  {[id |-> 1, userId |-> HookUser, title |-> Str("t"), amount |-> Num(3),
    category |-> Str("c"), createdAt |-> 1],
   [id |-> 2, userId |-> HookUser, title |-> Str("t"), amount |-> Num(-2),
    category |-> Str("c"), createdAt |-> 2]}

\* the ids deleteTransactions is called with
HookIds == {<<"2">>, <<"x">>}

\* the invocations of loadData, and the calls of deleteTransactions, that the
\* hook has running at once
LoadSlots == {1, 2}
DeleteSlots == {1}

\* one invocation of loadData: its place in the order the invocations at hand
\* were made in (0: none), the userId of its closure, its two fetches, and
\* whether its finally block has run
LoadOf(uid, list, sum) ==
  [seq |-> 0, user |-> uid, list |-> list, sum |-> sum, cleared |-> FALSE]

NoLoad == LoadOf(Undefined, NoFetch, NoFetch)

\* one call of deleteTransactions: the id, the userId of the closure it was
\* made in, the DELETE request, and what the call has done, in order
\* ("loadData", and the alerts "success" and "error")
DeleteOf(id, uid, pc) ==
  [id |-> id, user |-> uid, pc |-> pc, reply |-> NoReply, events |-> <<>>]

NoDelete == DeleteOf(<<>>, Undefined, "none")

\* lines 8-15: the state after the first render, with nothing called yet.
\* listOrder: the invocations at hand that have stored their list response,
\* in the order they did
InitialHook(uid) ==
  [userId |-> uid, transactions |-> JList(<<>>), summary |-> JSummary(NoSummary),
   isLoading |-> TRUE, loads |-> [i \in LoadSlots |-> NoLoad],
   deletes |-> [d \in DeleteSlots |-> NoDelete], listOrder |-> <<>>]

\* an invocation that went past the userId check
Started(l) == l.list.pc # "none"

\* an invocation with a fetch that has not settled
Pending(l) == l.list.pc \in {"sent", "reply"} \/ l.sum.pc \in {"sent", "reply"}

\* an invocation that has returned: nothing of it is left to run
Returned(l) == ~Pending(l) /\ (Started(l) => l.cleared)

\* the slot a new invocation takes: a free one, or that of an invocation that
\* has returned
FreeSlot(h) ==
  CHOOSE i \in LoadSlots :
    /\ Returned(h.loads[i])
    /\ \A j \in LoadSlots : j < i => ~Returned(h.loads[j])

HasFreeSlot(h) == \E i \in LoadSlots : Returned(h.loads[i])

\* order numbers with the invocation numbered old (0: none) gone
Closed(t, old) ==
  LET kept == SelectSeq(t, LAMBDA x : x # old)
  IN [k \in 1..Len(kept) |-> IF old # 0 /\ kept[k] > old THEN kept[k] - 1 ELSE kept[k]]

\* the hook with l as the latest of the invocations at hand, in the free slot
Taken(h, l) ==
  LET i == FreeSlot(h)
      old == h.loads[i].seq
      rest == [j \in LoadSlots |->
                 IF j = i THEN NoLoad
                 ELSE IF old # 0 /\ h.loads[j].seq > old
                 THEN [h.loads[j] EXCEPT !.seq = @ - 1]
                 ELSE h.loads[j]]
      n == Cardinality({j \in LoadSlots : rest[j].seq # 0})
  IN [h EXCEPT !.loads = [rest EXCEPT ![i] = [l EXCEPT !.seq = n + 1]],
               !.listOrder = Closed(@, old)]

\* a call made while an invocation has a fetch pending returns at once
loadData_Guarded(h, uid) ==
  IF Falsy(uid) \/ \E i \in LoadSlots : Pending(h.loads[i])
  THEN Taken(h, LoadOf(uid, NoFetch, NoFetch))
  ELSE [Taken(h, LoadOf(uid, SentFetch, SentFetch)) EXCEPT !.isLoading = TRUE]

\* the check of userId is missing
loadData_NoGuard(h, uid) ==
  [Taken(h, LoadOf(uid, SentFetch, SentFetch)) EXCEPT !.isLoading = TRUE]

\* lines 38-45, up to the await: both fetch functions run to their first await
loadData(h, uid) ==
  IF Falsy(uid)
  THEN Taken(h, LoadOf(uid, NoFetch, NoFetch))
  ELSE [Taken(h, LoadOf(uid, SentFetch, SentFetch)) EXCEPT !.isLoading = TRUE]

\* Promise.all over promises that are pending, fulfilled or rejected: rejected
\* with the first rejection, fulfilled when all are
PromiseAll(ps) ==
  IF \E k \in 1..Len(ps) : ps[k] = "rejected" THEN "rejected"
  ELSE IF \A k \in 1..Len(ps) : ps[k] = "fulfilled" THEN "fulfilled"
  ELSE "pending"

\* lines 43-54: the await of Promise.all returns or throws; catch logs, finally
\* clears the flag
loadDataDone(h, i) ==
  LET l == h.loads[i]
  IN IF ~l.cleared /\ PromiseAll(<<l.list.promise, l.sum.promise>>) # "pending"
     THEN [h EXCEPT !.isLoading = FALSE, !.loads[i].cleared = TRUE]
     ELSE h

\* a response is dropped when a later invocation has been made since
fetchTransaction_LastIssuedWins(h, i, how, reply) ==
  IF how = "json"
       /\ ~\E j \in LoadSlots : h.loads[j].seq > h.loads[i].seq /\ Started(h.loads[j])
  THEN [h EXCEPT !.transactions = reply.body,
                 !.listOrder = Append(@, h.loads[i].seq),
                 !.loads[i].list = DoneFetch("fulfilled")]
  ELSE [h EXCEPT !.loads[i].list = DoneFetch("fulfilled")]

\* on a failed fetch the function never returns: its promise stays pending
fetchTransaction_Hangs(h, i, how, reply) ==
  IF how = "json"
  THEN [h EXCEPT !.transactions = reply.body,
                 !.listOrder = Append(@, h.loads[i].seq),
                 !.loads[i].list = DoneFetch("fulfilled")]
  ELSE [h EXCEPT !.loads[i].list = DoneFetch("pending")]

\* there is no try/catch: a failed fetch rejects the promise
fetchTransaction_Rethrow(h, i, how, reply) ==
  IF how = "json"
  THEN [h EXCEPT !.transactions = reply.body,
                 !.listOrder = Append(@, h.loads[i].seq),
                 !.loads[i].list = DoneFetch("fulfilled")]
  ELSE [h EXCEPT !.loads[i].list = DoneFetch("rejected")]

\* lines 18-26, from the first await on: a body that parses is stored whatever
\* the status; a rejected fetch or json() is logged. The promise is fulfilled
\* either way.
fetchTransaction(h, i, how, reply) ==
  IF how = "json"
  THEN [h EXCEPT !.transactions = reply.body,
                 !.listOrder = Append(@, h.loads[i].seq),
                 !.loads[i].list = DoneFetch("fulfilled")]
  ELSE [h EXCEPT !.loads[i].list = DoneFetch("fulfilled")]

\* lines 28-36, from the first await on
fetchSummary(h, i, how, reply) ==
  IF how = "json"
  THEN [h EXCEPT !.summary = reply.body,
                 !.loads[i].sum = DoneFetch("fulfilled")]
  ELSE [h EXCEPT !.loads[i].sum = DoneFetch("fulfilled")]

\* the alert comes before the refresh
deleteTransactions_AlertFirst(h, d, how, reply) ==
  IF how = "failed" \/ ~Ok(reply)
  THEN [h EXCEPT !.deletes[d].pc = "done", !.deletes[d].reply = NoReply,
                 !.deletes[d].events = Append(@, "error")]
  ELSE LET alerted == [h EXCEPT !.deletes[d].events = Append(@, "success")]
           called == [alerted EXCEPT !.deletes[d].events = Append(@, "loadData")]
           loading == loadData(called, h.deletes[d].user)
       IN [loading EXCEPT !.deletes[d].pc = "done", !.deletes[d].reply = NoReply]

\* response.ok is not looked at
deleteTransactions_NoOkCheck(h, d, how, reply) ==
  IF how = "failed"
  THEN [h EXCEPT !.deletes[d].pc = "done", !.deletes[d].reply = NoReply,
                 !.deletes[d].events = Append(@, "error")]
  ELSE LET called == [h EXCEPT !.deletes[d].events = Append(@, "loadData")]
           loading == loadData(called, h.deletes[d].user)
       IN [loading EXCEPT !.deletes[d].pc = "done", !.deletes[d].reply = NoReply,
                          !.deletes[d].events = Append(@, "success")]

\* lines 57-71, from the await on: a rejected fetch and a status that is not
\* ok end in the catch block; otherwise loadData() is called, not awaited, and
\* the success alert follows
deleteTransactions(h, d, how, reply) ==
  IF how = "failed" \/ ~Ok(reply)
  THEN [h EXCEPT !.deletes[d].pc = "done", !.deletes[d].reply = NoReply,
                 !.deletes[d].events = Append(@, "error")]
  ELSE LET called == [h EXCEPT !.deletes[d].events = Append(@, "loadData")]
           loading == loadData(called, h.deletes[d].user)
       IN [loading EXCEPT !.deletes[d].pc = "done", !.deletes[d].reply = NoReply,
                          !.deletes[d].events = Append(@, "success")]

\* the hook is rendered again with another userId (sign-in, sign-out)
SetUser ==
  /\ hook' = [hook EXCEPT !.userId = IF @ = Undefined THEN HookUser ELSE Undefined]
  /\ UNCHANGED <<gateVars, storeVars>>

\* the screen calls loadData()
LoadData ==
  /\ HasFreeSlot(hook)
  /\ hook' = loadData(hook, hook.userId)
  /\ UNCHANGED <<gateVars, storeVars>>

\* what GET /api/transactions/:userId may answer: the list, or the {message}
\* of an error response (the rate limiter's 429)
ListReplies(u) ==
  {Reply(200, JList(ListByUser(u))), Reply(429, JMessage(TooManyRequests))}

\* what GET /api/transactions/summary/:userId may answer
SummaryReplies(u) ==
  {Reply(200, JSummary(Summary(u))), Reply(429, JMessage(TooManyRequests))}

\* how a fetch may end from where it stands: rejected with no response, or
\* with the response that is on its way
Endings(f) == IF f.pc = "reply" THEN Arrivals ELSE {"failed"}

\* the server answers the list request of invocation i
ServeList(i) ==
  /\ hook.loads[i].list.pc = "sent"
  /\ \E reply \in ListReplies(hook.loads[i].user.s) :
       hook' = [hook EXCEPT !.loads[i].list.pc = "reply", !.loads[i].list.reply = reply]
  /\ UNCHANGED <<gateVars, storeVars>>

\* the server answers the summary request of invocation i
ServeSummary(i) ==
  /\ hook.loads[i].sum.pc = "sent"
  /\ \E reply \in SummaryReplies(hook.loads[i].user.s) :
       hook' = [hook EXCEPT !.loads[i].sum.pc = "reply", !.loads[i].sum.reply = reply]
  /\ UNCHANGED <<gateVars, storeVars>>

\* the list fetch of invocation i settles: fetchTransaction runs to its end,
\* and with it whatever of loadData its promise was holding up
ListSettles(i) ==
  /\ hook.loads[i].list.pc \in {"sent", "reply"}
  /\ \E next \in {loadDataDone(fetchTransaction(hook, i, how, hook.loads[i].list.reply), i) :
                     how \in Endings(hook.loads[i].list)} :
       hook' = next
  /\ UNCHANGED <<gateVars, storeVars>>

\* the summary fetch of invocation i settles
SummarySettles(i) ==
  /\ hook.loads[i].sum.pc \in {"sent", "reply"}
  /\ \E next \in {loadDataDone(fetchSummary(hook, i, how, hook.loads[i].sum.reply), i) :
                     how \in Endings(hook.loads[i].sum)} :
       hook' = next
  /\ UNCHANGED <<gateVars, storeVars>>

\* the screen calls deleteTransactions(id)
DeleteTransactions(d) ==
  /\ hook.deletes[d].pc \in {"none", "done"}
  /\ \A e \in DeleteSlots : e < d => hook.deletes[e].pc \notin {"none", "done"}
  /\ \E id \in HookIds :
       hook' = [hook EXCEPT !.deletes[d] = DeleteOf(id, hook.userId, "sent")]
  /\ UNCHANGED <<gateVars, storeVars>>

\* the DELETE request of call d is answered: by the rate limiter, or by
\* deleteItem on the store (the store's record of its latest call is kept in
\* SpecStore only)
ServeDelete(d) ==
  /\ hook.deletes[d].pc = "sent"
  /\ \/ /\ hook' = [hook EXCEPT !.deletes[d].pc = "reply",
                                 !.deletes[d].reply =
                                   Reply(429, JMessage(TooManyRequests))]
        /\ UNCHANGED storeVars
     \/ \E res \in {deleteItem(hook.deletes[d].id, dbOk, FALSE) : dbOk \in BOOLEAN} :
          /\ hook' = [hook EXCEPT !.deletes[d].pc = "reply",
                                  !.deletes[d].reply =
                                    Reply(res.status, JMessage(res.message))]
          /\ rows' = res.rows
          /\ live' = IF res.status = 200 THEN live \ {res.item} ELSE live
          /\ ledger' = IF res.status = 200 THEN Booked(res.item, -1) ELSE ledger
          /\ UNCHANGED <<nextId, created, last>>
  /\ UNCHANGED gateVars

\* the DELETE request of call d settles; the response body is never read
DeleteSettles(d) ==
  /\ hook.deletes[d].pc \in {"sent", "reply"}
  /\ \E how \in Endings(hook.deletes[d]) \ {"garbage"} :
       /\ (how = "json" /\ Ok(hook.deletes[d].reply)) => HasFreeSlot(hook)
       /\ hook' = deleteTransactions(hook, d, how, hook.deletes[d].reply)
  /\ UNCHANGED <<gateVars, storeVars>>

\* the server on its own: no hook is mounted, and there is no hook state
HookIdle == hook = <<>>

StoreIdle ==
  /\ rows = {}
  /\ nextId = 1
  /\ created = <<>>
  /\ live = {}
  /\ ledger = [u \in Users |-> NoSummary]
  /\ last = NoCall

InitGate ==
  /\ slots = [r \in Reqs |-> IdleSlot]
  /\ used = [k \in Keys |-> 0]
  /\ calls = 0
  /\ production \in BOOLEAN
  /\ StoreIdle
  /\ HookIdle

NextGate ==
  \/ \E r \in Reqs : Request(r)
  \/ \E r \in Reqs : KeepAliveTick(r)
  \/ \E r \in Reqs : LimitAnswer(r)
  \/ \E r \in Reqs : LimitError(r)
  \/ WindowExpire
  \/ \E r \in Reqs : ExpressJson(r)
  \/ \E r \in Reqs : HealthRoute(r)
  \/ \E r \in Reqs : TransactionsRoute(r)
  \/ \E r \in Reqs : Release(r)

SpecGate == InitGate /\ [][NextGate]_vars

\* the rate limiter alone, on two requests with every header text up to
\* MaxHdrLen characters; what follows next() is left to SpecGate
InitKey ==
  /\ slots = [r \in Reqs |-> IdleSlot]
  /\ used = [k \in Keys |-> 0]
  /\ calls = 0
  /\ production = FALSE
  /\ StoreIdle
  /\ HookIdle

NextKey ==
  \/ \E r \in Reqs : LongRequest(r)
  \/ \E r \in Reqs : LimitAnswer(r)
  \/ \E r \in Reqs : LimitError(r)
  \/ WindowExpire

SpecKey == InitKey /\ [][NextKey]_vars

\* the handlers behind the gate, for the requests it has passed on
InitStore ==
  /\ slots = [r \in Reqs |-> IdleSlot]
  /\ used = [k \in Keys |-> 0]
  /\ calls = 0
  /\ production = FALSE
  /\ StoreIdle
  /\ HookIdle

NextStore ==
  \/ StoreCreate
  \/ StoreDelete
  \/ List
  \/ Summarize

SpecStore == InitStore /\ [][NextStore]_vars

\* createItem and deleteItem on every request body and id parameter, over a
\* store of few records
NextInput ==
  \/ AnyCreate
  \/ AnyDelete

SpecInput == InitStore /\ [][NextInput]_vars

\* the hook on a device, against a server that holds two records of its
\* user; the signed-in user, or none, stays the same
InitHook ==
  /\ slots = [r \in Reqs |-> IdleSlot]
  /\ used = [k \in Keys |-> 0]
  /\ calls = 0
  /\ production = FALSE
  /\ rows = HookRows
  /\ nextId = 3
  /\ created = <<1, 2>>
  /\ live = HookRows
  /\ ledger = [u \in Users |-> SummaryOf(HookRows, u)]
  /\ last = NoCall
  /\ hook \in {InitialHook(uid) : uid \in {Undefined, HookUser}}

NextHook ==
  \/ LoadData
  \/ \E i \in LoadSlots : ServeList(i)
  \/ \E i \in LoadSlots : ServeSummary(i)
  \/ \E i \in LoadSlots : ListSettles(i)
  \/ \E i \in LoadSlots : SummarySettles(i)
  \/ \E d \in DeleteSlots : DeleteTransactions(d)
  \/ \E d \in DeleteSlots : ServeDelete(d)
  \/ \E d \in DeleteSlots : DeleteSettles(d)

SpecHook == InitHook /\ [][NextHook]_vars

\* loadData alone, while the user signs in and out
NextLoads ==
  \/ SetUser
  \/ LoadData
  \/ \E i \in LoadSlots : ServeList(i)
  \/ \E i \in LoadSlots : ServeSummary(i)
  \/ \E i \in LoadSlots : ListSettles(i)
  \/ \E i \in LoadSlots : SummarySettles(i)

SpecLoads == InitHook /\ [][NextLoads]_vars

\* every fetch that was issued settles in the end
SpecLoadsFair ==
  /\ InitHook
  /\ [][NextLoads]_vars
  /\ \A i \in LoadSlots : WF_vars(ListSettles(i)) /\ WF_vars(SummarySettles(i))

----------------------------------------------------------------------------
(* Claims about the rate limiter and the middleware chain *)

\* C1: a request whose limit(key) resolved with success = false is answered
\* 429 with the fixed message, and next is never invoked for it: it reaches
\* neither the body parser nor a route handler.
C1_RejectedIsShortCircuited ==
  \A r \in Reqs :
    slots[r].limited = "over" =>
      /\ slots[r].pc = "done"
      /\ slots[r].status = 429
      /\ slots[r].body = TooManyRequests
      /\ slots[r].sent = 1
      /\ slots[r].nextCalls = 0
      /\ slots[r].errCalls = 0
      /\ slots[r].json = "pending"
      /\ slots[r].handler = "none"

C1_Witness ==
  \E r \in Reqs :
    /\ slots[r].limited = "over"
    /\ slots[r].status = 429
    /\ slots[r].path = "transactions"

\* C2: a request whose limiter call failed is handed to the error handler by
\* next(error); it is neither passed on to the route handlers nor answered 429.
C2_LimiterFailureGoesToErrorHandler ==
  \A r \in Reqs :
    slots[r].limited = "failed" =>
      /\ slots[r].errCalls = 1
      /\ slots[r].nextCalls = 0
      /\ slots[r].status # 429
      /\ slots[r].json = "pending"
      /\ slots[r].handler = "none"

C2_Witness ==
  \E r \in Reqs :
    /\ slots[r].limited = "failed"
    /\ slots[r].errCalls = 1
    /\ slots[r].status = 500

\* C3: a request that is the (Threshold+1)-th or a later one of its key in
\* the window is answered 429, and a request that is at most the Threshold-th
\* of its key is passed on by next(), whatever the other keys have used up.
C3_BudgetIsPerKey ==
  \A r \in Reqs :
    slots[r].limited \in {"success", "over"} =>
      /\ slots[r].over => slots[r].status = 429 /\ slots[r].nextCalls = 0
      /\ ~slots[r].over => slots[r].status # 429 /\ slots[r].nextCalls = 1

\* one key is over its budget and has its 429; in the same window a request
\* of another key is passed on
C3_Witness ==
  \E r, q \in Reqs :
    /\ slots[r].key # slots[q].key
    /\ slots[r].over /\ slots[r].status = 429
    /\ used[slots[r].key] = Threshold + 1
    /\ slots[q].limited = "success" /\ slots[q].nextCalls = 1
    /\ used[slots[q].key] = 1

\* tok is the text before the first comma of text
IsFirstToken(text, tok) ==
  /\ Len(tok) <= Len(text)
  /\ tok = SubSeq(text, 1, Len(tok))
  /\ \A i \in 1..Len(tok) : tok[i] # ","
  /\ Len(tok) < Len(text) => text[Len(tok) + 1] = ","

\* k is tok without the white space around it
IsTrimmed(tok, k) ==
  /\ k # <<>> => k[1] # " " /\ k[Len(k)] # " "
  /\ \E a \in 0..Len(tok) :
       /\ a + Len(k) <= Len(tok)
       /\ k = SubSeq(tok, a + 1, a + Len(k))
       /\ \A i \in 1..Len(tok) : (i <= a \/ i > a + Len(k)) => tok[i] = " "

KeyOfHeader(text, k) ==
  \E n \in 0..Len(text) : IsFirstToken(text, SubSeq(text, 1, n))
                             /\ IsTrimmed(SubSeq(text, 1, n), k)

\* C4: the key passed to limit() is the trimmed first comma-separated token
\* of the forwarded-for header when the header is present, and the peer
\* address otherwise; two waiting requests whose headers have the same
\* trimmed first token pass the same key, whatever their peers.
C4_KeyDerivation ==
  /\ \A r \in Reqs :
       slots[r].pc = "limit" =>
         IF slots[r].fwd.present
         THEN KeyOfHeader(slots[r].fwd.text, slots[r].key)
         ELSE slots[r].key = slots[r].peer
  /\ \A r, q \in Reqs :
       /\ slots[r].pc = "limit" /\ slots[q].pc = "limit"
       /\ slots[r].fwd.present /\ slots[q].fwd.present
       /\ \E k \in Keys : KeyOfHeader(slots[r].fwd.text, k) /\ KeyOfHeader(slots[q].fwd.text, k)
       => slots[r].key = slots[q].key

C4_Witness ==
  \E r, q \in Reqs :
    /\ slots[r].pc = "limit" /\ slots[q].pc = "limit"
    /\ slots[r].fwd.present /\ slots[q].fwd.present
    /\ slots[r].fwd.text # slots[q].fwd.text
    /\ slots[r].peer # slots[q].peer
    /\ slots[r].key = slots[q].key
    /\ slots[r].key = <<"a">>
    /\ slots[r].fwd.text[1] = " "

\* C5 as stated: every GET /api/health is answered 200 {status: "ok"}
C5_HealthAlwaysOk ==
  \A r \in Reqs :
    slots[r].path = "health" /\ slots[r].pc = "done" =>
      slots[r].status = 200 /\ slots[r].body = "ok"

\* C5 amended: a GET /api/health that the limiter lets through and whose body
\* express.json() accepts is answered 200 {status: "ok"}, whoever sent it; one
\* whose key is over the limit is answered 429, one whose limiter call failed
\* gets the error handler's 500.
C5_HealthBehindLimiter ==
  \A r \in Reqs :
    slots[r].path = "health" /\ slots[r].pc = "done" =>
      /\ slots[r].limited = "success" /\ slots[r].json = "ok"
           => slots[r].status = 200 /\ slots[r].body = "ok"
      /\ slots[r].limited = "over" => slots[r].status = 429
      /\ slots[r].limited = "failed" => slots[r].status = 500

C5_Witness ==
  \E r \in Reqs :
    /\ slots[r].path = "health" /\ slots[r].from = "cron"
    /\ slots[r].pc = "done"
    /\ slots[r].status = 200 /\ slots[r].body = "ok"

----------------------------------------------------------------------------
(* Claims about the transactions handlers *)

\* the field is in the body with a value
Present(v) == v.t \notin {"undefined", "null"}

InList(x, list) == \E i \in 1..Len(list) : list[i] = x

\* C7: a Create answered 201 returns a record with the request's userId,
\* title, amount and category and an id no other 201 ever returned; every
\* record returned by a 201 and not by a delete's 200 since is in the list of
\* its user and in no other user's list.
C7_CreatedIsListed ==
  /\ last.op = "create" /\ last.status = 201 =>
       /\ last.item.userId = last.body.userId
       /\ last.item.title = last.body.title
       /\ last.item.amount = last.body.amount
       /\ last.item.category = last.body.category
       /\ \A x \in last.before : x.id # last.item.id
  /\ \A i, j \in 1..Len(created) : i # j => created[i] # created[j]
  /\ \A x \in live : \A u \in Users :
       InList(x, ListByUser(u)) <=> x.userId = Str(u)

\* two Creates with the same body, both answered 201: two records
C7_Witness ==
  /\ last.op = "create" /\ last.status = 201
  /\ \E x \in last.before :
       /\ x.userId = last.item.userId /\ x.title = last.item.title
       /\ x.amount = last.item.amount /\ x.category = last.item.category
       /\ x.id # last.item.id
       /\ InList(x, ListByUser("u1")) /\ InList(last.item, ListByUser("u1"))
       /\ ~InList(x, ListByUser("u2"))

\* C8: for every user the summary is what the 201 and 200 responses for that
\* user's records add up to: balance the sum of the amounts, income the sum
\* of the positive ones, expense the sum of the negative ones, so that
\* balance = income + expense; a user without records has all zeros and an
\* empty list.
C8_SummaryAddsUp ==
  \A u \in Users :
    /\ Summary(u) = ledger[u]
    /\ Summary(u).balance = Summary(u).income + Summary(u).expense
    /\ Summary(u).income >= 0 /\ Summary(u).expense <= 0
    /\ (\A x \in live : x.userId # Str(u))
         => Summary(u) = NoSummary /\ ListByUser(u) = <<>>

C8_Witness ==
  /\ last.op = "summary" /\ last.user = "u1"
  /\ last.summary = [balance |-> 1, income |-> 3, expense |-> -2]
  /\ Summary("u2") = NoSummary
  /\ Len(created) = 3 /\ Cardinality(rows) = 2

\* C9 as stated: when the store itself does not fail, a Delete with an id that
\* is not a number is answered 400 and changes no record; a Delete of an
\* existing id is answered 200 with the record and removes exactly it; a
\* Delete of an id no record has is answered 404 and changes no record
C9_AsStated ==
  last.op = "delete" /\ ~last.dbFailed =>
    IF ~AllDigits(last.id)
    THEN last.status = 400 /\ rows = last.before
    ELSE IF \E x \in last.before : x.id = Decimal(last.id)
    THEN /\ last.status = 200
         /\ last.item \in last.before /\ last.item.id = Decimal(last.id)
         /\ rows = last.before \ {last.item}
    ELSE last.status = 404 /\ rows = last.before

\* the records of a user that the responses say exist
LiveOf(u) == {x \in live : x.userId = Str(u)}

\* where in the order of creation the record with this id stands
CreatedPos(id) == CHOOSE i \in 1..Len(created) : created[i] = id

C10_ListResult ==
  last.op = "list" =>
    /\ {last.list[i] : i \in 1..Len(last.list)} = LiveOf(last.user)
    /\ Len(last.list) = Cardinality(LiveOf(last.user))
    /\ \A i, j \in 1..Len(last.list) :
         i < j => CreatedPos(last.list[i].id) > CreatedPos(last.list[j].id)
    /\ rows = last.before

C10_SameAgain ==
  (last.op = "list" /\ last'.op = "list" /\ last'.user = last.user)
    => last'.list = last.list

----------------------------------------------------------------------------
(* Claims about the mobile hook *)

\* userId values that count as absent
AbsentIds == {Undefined, Null}

\* the invocations of h with a fetch that has not settled
InFlight(h) == {i \in LoadSlots : Pending(h.loads[i])}

\* C11: loadData() called while userId is absent is a no-op: it issues no
\* list and no summary request, and transactions, summary and isLoading are
\* what they were before the call.
C11_AbsentUserIsNoOp ==
  HasFreeSlot(hook) =>
    \A uid \in AbsentIds :
      LET h == loadData(hook, uid)
      IN /\ h.transactions = hook.transactions
         /\ h.summary = hook.summary
         /\ h.isLoading = hook.isLoading
         /\ ~Started(h.loads[FreeSlot(hook)])
         /\ InFlight(h) = InFlight(hook)

\* loadData() was called without a user after an earlier load had stored a
\* list and cleared the flag; the flag is still cleared and the list is there
C11_Witness ==
  /\ Falsy(hook.userId)
  /\ \E i \in LoadSlots :
       /\ hook.loads[i].seq # 0
       /\ Falsy(hook.loads[i].user)
       /\ ~Started(hook.loads[i])
  /\ ~hook.isLoading
  /\ hook.transactions.t = "list"
  /\ hook.transactions.items # <<>>

\* C12: an invocation of loadData clears the loading flag only after both of
\* its fetches have settled, whether they succeeded or failed: while one of
\* them is pending its finally block has not run.
C12_ClearedAfterBoth ==
  \A i \in LoadSlots :
    hook.loads[i].cleared =>
      /\ hook.loads[i].list.pc = "done"
      /\ hook.loads[i].sum.pc = "done"

\* the list fetch of the only invocation so far has failed (nothing was
\* stored), its summary fetch is pending, and the flag is still set
C12_Witness ==
  \E i \in LoadSlots :
    /\ \A j \in LoadSlots : j # i => hook.loads[j] = NoLoad
    /\ hook.loads[i].list.pc = "done"
    /\ hook.loads[i].sum.pc \in {"sent", "reply"}
    /\ hook.transactions = JList(<<>>)
    /\ ~hook.loads[i].cleared
    /\ hook.isLoading

\* every invocation at hand has returned, and one of them was a load
AllReturned ==
  /\ \A i \in LoadSlots : Returned(hook.loads[i])
  /\ \E i \in LoadSlots : Started(hook.loads[i])

C13_Clears ==
  \A i \in LoadSlots :
    (Started(hook.loads[i]) /\ ~hook.loads[i].cleared) ~> hook.loads[i].cleared

\* C13: if every fetch that was issued settles, every invocation of loadData
\* with a userId present clears the loading flag in the end, whether its
\* fetches succeeded, failed, or returned a body that does not parse; and when
\* all the invocations have returned, isLoading is false.
C13_LoadingEnds == C13_Clears /\ [](AllReturned => ~hook.isLoading)

\* an invocation has cleared the flag though neither of its fetches stored
\* anything (both failed, or their bodies did not parse)
C13_Witness ==
  /\ \E i \in LoadSlots : Started(hook.loads[i]) /\ hook.loads[i].cleared
  /\ ~hook.isLoading
  /\ hook.transactions = JList(<<>>)
  /\ hook.summary = JSummary(NoSummary)

\* C14, as stated: transactions is always a list of records and summary is
\* always a balance/income/expense triple.
C14_AsStated ==
  /\ hook.transactions.t = "list"
  /\ hook.summary.t = "summary"

\* the call d, settling with how, has got a success status
Succeeds(d, how) == how = "json" /\ Ok(hook.deletes[d].reply)

\* C15: when the DELETE request of deleteTransactions returns a success
\* status, the hook calls loadData() and then shows the success alert, and
\* shows no error alert: the call does "loadData", "success", in this order,
\* and nothing else; with a user in the closure, the loadData it calls sets
\* the flag and issues both fetches.
C15_RefreshThenSuccess ==
  \A d \in DeleteSlots :
    /\ hook.deletes[d].pc = "done" =>
         hook.deletes[d].events \in {<<"loadData", "success">>, <<"error">>}
    /\ (hook.deletes[d].pc = "reply" /\ Succeeds(d, "json") /\ HasFreeSlot(hook)) =>
         LET h == deleteTransactions(hook, d, "json", hook.deletes[d].reply)
             l == h.loads[FreeSlot(hook)]
         IN /\ h.deletes[d].events = <<"loadData", "success">>
            /\ l.user = hook.deletes[d].user
            /\ ~Falsy(l.user) =>
                 l.list.pc = "sent" /\ l.sum.pc = "sent" /\ ~l.cleared /\ h.isLoading

\* a delete has succeeded on the server and for the hook: record 2 is gone,
\* the call has refreshed and alerted, and the refresh is in flight
C15_Witness ==
  \E d \in DeleteSlots :
    /\ hook.deletes[d].pc = "done"
    /\ hook.deletes[d].events = <<"loadData", "success">>
    /\ \A x \in rows : x.id # 2
    /\ \E i \in LoadSlots : hook.loads[i].list.pc = "sent" /\ hook.loads[i].sum.pc = "sent"

\* C16: when the DELETE request returns a status that is not a success, or
\* fails, the call shows one error alert and nothing else: no success alert,
\* no loadData(), and transactions, summary, isLoading and the invocations of
\* loadData are what they were.
C16_FailureOnlyAlerts ==
  \A d \in DeleteSlots :
    hook.deletes[d].pc \in {"sent", "reply"} =>
      \A how \in Endings(hook.deletes[d]) \ {"garbage"} :
        ~Succeeds(d, how) =>
          LET h == deleteTransactions(hook, d, how, hook.deletes[d].reply)
          IN /\ h.deletes[d].events = <<"error">>
             /\ h.transactions = hook.transactions
             /\ h.summary = hook.summary
             /\ h.isLoading = hook.isLoading
             /\ h.loads = hook.loads

\* a call has ended in the error alert while a load was in flight, and the
\* record it was to delete is still on the server
C16_Witness ==
  \E d \in DeleteSlots :
    /\ hook.deletes[d].pc = "done"
    /\ hook.deletes[d].id = <<"2">>
    /\ hook.deletes[d].events = <<"error">>
    /\ \E x \in rows : x.id = 2
    /\ hook.isLoading
    /\ InFlight(hook) # {}

\* C17: loadData is not guarded against overlapping invocations: called
\* with a user while an invocation has a fetch pending, it sets the flag and
\* issues its two fetches all the same. isLoading = false therefore does not
\* mean that no load is in flight: where it is false while a fetch of an
\* invocation is pending, it is not that invocation that has cleared it.
C17_NoOverlapGuard ==
  /\ (HasFreeSlot(hook) /\ InFlight(hook) # {}) =>
       LET h == loadData(hook, HookUser)
           l == h.loads[FreeSlot(hook)]
       IN /\ l.list.pc = "sent"
          /\ l.sum.pc = "sent"
          /\ h.isLoading
          /\ InFlight(h) = InFlight(hook) \cup {FreeSlot(hook)}
  /\ \A i \in LoadSlots :
       (~hook.isLoading /\ Pending(hook.loads[i])) => ~hook.loads[i].cleared

\* two invocations have overlapped: one has returned and cleared the flag,
\* and isLoading is false while a fetch of the other is pending
C17_Witness ==
  /\ ~hook.isLoading
  /\ \E i, j \in LoadSlots :
       /\ Pending(hook.loads[i])
       /\ Started(hook.loads[j]) /\ hook.loads[j].cleared

\* C18: a list response is stored when it arrives, whichever invocation it
\* belongs to: there is no last-issued-wins guard, so the response of an
\* earlier invocation replaces what a later one has stored.
C18_AppliedOnArrival ==
  \A i \in LoadSlots :
    hook.loads[i].list.pc = "reply" =>
      fetchTransaction(hook, i, "json", hook.loads[i].list.reply).transactions
        = hook.loads[i].list.reply.body

\* all fetches have settled; the later invocation stored its list first and
\* the earlier one after it; transactions holds record 2, which the server
\* has deleted, next to a summary of the server's records as they are now
C18_Witness ==
  /\ InFlight(hook) = {}
  /\ hook.listOrder = <<2, 1>>
  /\ hook.transactions.t = "list"
  /\ \E k \in 1..Len(hook.transactions.items) : hook.transactions.items[k].id = 2
  /\ \A x \in rows : x.id # 2
  /\ hook.summary = JSummary(Summary("u1"))

----------------------------------------------------------------------------
(* The three outcomes of the rate limiter middleware *)

\* C19: for every request, rateLimiter takes exactly one of three outcomes
\* and takes it once: it sends the 429 itself, or it calls next(), or it calls
\* next(error). While the limiter call is pending it has taken none; once the
\* call has settled it has taken one, and never a second.
C19_ExactlyOneOutcome ==
  \A r \in Reqs :
    LET s == slots[r]
        outcomes == s.rejects + s.nextCalls + s.errCalls
    IN /\ s.limited = "pending" => outcomes = 0
       /\ s.limited # "pending" => outcomes = 1

\* one request has its 429 from the middleware while another went to the
\* error handler, and either slot has seen a request passed on before
C19_Witness ==
  \E r, q \in Reqs :
    /\ slots[r].limited = "over" /\ slots[r].rejects = 1
    /\ slots[q].limited = "failed" /\ slots[q].errCalls = 1

====
